---- MODULE Spec2Model ----
(***************************************************************************)
(* State-machine model of the wedding planner's three script variants:     *)
(*   "App"        src/docs/script.js:13-955    (const App, key chatan_v3)   *)
(*   "WeddingApp" src/docs/script.js:990-1559  (const WeddingApp, cached)   *)
(*   "Legacy"     src/unnamed/part_000         (const WeddingApp, uncached) *)
(* One behaviour runs one variant (variable app).  Handlers run to         *)
(* completion: each action is one whole event-loop callback.               *)
(*                                                                         *)
(* String literals of the source that are Hebrew are written in ASCII:     *)
(*   "magia" = 'מגיע', "lo_magia" = 'לא מגיע', "terem" = 'טרם אישר'.        *)
(***************************************************************************)
EXTENDS Integers, Sequences, FiniteSets, TLC

VARIABLES
    app,        \* which script variant this page runs
    data,       \* this.data: the in-memory document
    stored,     \* localStorage[DB / DB_KEY]: NoItem or the JSON text written
    storageOk,  \* whether localStorage.setItem succeeds in this browser
    _cache,     \* App._cache / WeddingApp._cachedTotals
    _raf,       \* App._raf / WeddingApp._renderQueued
    rafQueue,   \* redraw callbacks handed to requestAnimationFrame, not yet run
    result,     \* what the last call of the aggregation returned (the pure-function runs)
    onclick,    \* dom.modalSave.onclick / dom.modalActionBtn.onclick
    now,        \* the reading of Date.now()
    _countdownTimer, \* App._countdownTimer / WeddingApp._countdownInterval: "null", or whether the interval it names is "live" or "cleared"
    intervals,  \* how many setInterval timers of the page are active
    guestSearch,      \* dom.guestSearch.value: the text in the search box
    debounceTimer,    \* the timeout debounce() keeps (t / timer): pending or not
    _guestSearchText, \* the text renderGuests last filtered by (App._guestSearchText, filterText)
    rows,       \* the rows the guest and task lists show, each with the index its buttons carry (followed where rows.on)
    display,    \* dom.modal.style.display: "none", or 'flex' with the class show ("open") or without it ("closing"); "off" where the modal is not followed
    cleanups,   \* the timeouts closeModal() has set that have not run yet; -1 where the modal is not followed
    hist        \* history of the run, read only by the properties

vars == <<app, data, stored, storageOk, _cache, _raf, rafQueue, result, onclick, now,
          _countdownTimer, intervals,
          guestSearch, debounceTimer, _guestSearchText, rows, display, cleanups, hist>>

\* what the page shows and the timeouts behind it
domVars == <<guestSearch, debounceTimer, _guestSearchText, rows, display, cleanups>>

----------------------------------------------------------------------------
(* Bounds of the model *)

\* at most this many entities (expenses, guests and tasks together) in a document
MaxEntities == 2
\* at most this many cleanup timeouts of closeModal() pending at a time
MaxCleanups == 2
\* how many entries of generateDefaultTasks' list of ten the model keeps
DefaultTaskCount == 1

----------------------------------------------------------------------------
(* JavaScript values: a number, a string, undefined, or NaN.  Every value   *)
(* has the same three fields so that values of different types compare.    *)

Num(n) == [t |-> "number", n |-> n, s |-> ""]
Str(s) == [t |-> "string", n |-> 0, s |-> s]
Undefined == [t |-> "undefined", n |-> 0, s |-> ""]
NaN == [t |-> "NaN", n |-> 0, s |-> ""]

Null == [t |-> "null", n |-> 0, s |-> ""]

\* The numerals a number input can hold in this model, with their values.
Numerals == {"0", "1", "2", "3", "-20000", "10000", "20000", "50000", "100000", "200000"}

NumeralValue(s) ==
    CASE s = "0" -> 0
      [] s = "1" -> 1
      [] s = "2" -> 2
      [] s = "3" -> 3
      [] s = "-20000" -> 0 - 20000
      [] s = "10000" -> 10000
      [] s = "20000" -> 20000
      [] s = "50000" -> 50000
      [] s = "100000" -> 100000
      [] s = "200000" -> 200000

\* Number(v): a number is itself, "" is 0, a numeral its value, anything else NaN.
Number(v) ==
    CASE v.t = "number" -> v
      [] v.t = "string" ->
            IF v.s = "" THEN Num(0)
            ELSE IF v.s \in Numerals THEN Num(NumeralValue(v.s))
            ELSE NaN
      [] v.t = "null" -> Num(0)
      [] v.t = "boolean" -> Num(v.n)
      [] OTHER -> NaN

\* !v for the values of this model: "", 0, NaN, undefined and null are falsy.
Falsy(v) ==
    CASE v.t = "number" -> v.n = 0
      [] v.t = "string" -> v.s = ""
      [] v.t = "boolean" -> v.n = 0
      [] OTHER -> TRUE

\* a || b
Or(a, b) == IF Falsy(a) THEN b ELSE a

\* a - b, a + b on numbers (operands coerced with Number)
Minus(a, b) ==
    LET x == Number(a)
        y == Number(b)
    IN  IF x.t = "number" /\ y.t = "number" THEN Num(x.n - y.n) ELSE NaN

Plus(a, b) ==
    LET x == Number(a)
        y == Number(b)
    IN  IF x.t = "number" /\ y.t = "number" THEN Num(x.n + y.n) ELSE NaN

\* a > 0 (false for NaN)
Positive(a) == LET x == Number(a) IN x.t = "number" /\ x.n > 0

\* a < 0 (false for NaN)
Negative(a) == LET x == Number(a) IN x.t = "number" /\ x.n < 0

----------------------------------------------------------------------------
(* Quotients.  totalPaid / budget is kept exact, as a fraction in lowest    *)
(* terms with a positive denominator; a zero divisor gives Infinity or NaN. *)

Abs(n) == IF n < 0 THEN 0 - n ELSE n

RECURSIVE GCD(_, _)
GCD(a, b) == IF b = 0 THEN a ELSE GCD(b, a % b)

Frac(n, d) ==
    LET g == GCD(Abs(n), Abs(d))
        sg == IF d < 0 THEN 0 - 1 ELSE 1
    IN  [t |-> "number", num |-> (sg * n) \div g, den |-> (sg * d) \div g]

FracNaN == [t |-> "NaN", num |-> 0, den |-> 1]
FracInfinity == [t |-> "Infinity", num |-> 1, den |-> 1]
FracNegInfinity == [t |-> "-Infinity", num |-> 0 - 1, den |-> 1]

\* a / b
Div(a, b) ==
    LET x == Number(a)
        y == Number(b)
    IN  IF x.t # "number" \/ y.t # "number" THEN FracNaN
        ELSE IF y.n # 0 THEN Frac(x.n, y.n)
        ELSE IF x.n = 0 THEN FracNaN
        ELSE IF x.n > 0 THEN FracInfinity
        ELSE FracNegInfinity

\* q * k for an integer k
FracTimes(q, k) == IF q.t = "number" THEN Frac(q.num * k, q.den) ELSE q

\* Math.min(q, k) for an integer k: NaN stays NaN
FracMin(q, k) ==
    CASE q.t = "NaN" -> q
      [] q.t = "Infinity" -> Frac(k, 1)
      [] q.t = "-Infinity" -> q
      [] OTHER -> IF q.num > k * q.den THEN Frac(k, 1) ELSE q

\* comparisons of a quotient with an integer (false for NaN)
FracLess(q, k) == q.t = "-Infinity" \/ (q.t = "number" /\ q.num < k * q.den)
FracGreater(q, k) == q.t = "Infinity" \/ (q.t = "number" /\ q.num > k * q.den)

Bool(b) == [t |-> "boolean", n |-> IF b THEN 1 ELSE 0, s |-> ""]

----------------------------------------------------------------------------
(* Documents.  The model keeps the fields of the source's records that the  *)
(* aggregation, the mutations and the storage round trip read; the free     *)
(* texts that no computation reads (groom, bride, date, note, side) are     *)
(* left out.  Every scalar field is a JavaScript value.                     *)

DEFAULT_BUDGET == 150000
DEFAULT_GUEST_ESTIMATE == 300
LEGACY_BUDGET == 100000

\* App.defaults
defaults ==
    [onboarded |-> Bool(FALSE),
     settings |-> [budget |-> Num(DEFAULT_BUDGET), guest_estimate |-> Num(DEFAULT_GUEST_ESTIMATE)],
     expenses |-> <<>>,
     guests |-> <<>>,
     tasks |-> <<>>]

\* WeddingApp.data as the object literal sets it (both WeddingApp variants)
WeddingAppData ==
    [settings |-> [total_budget |-> Num(LEGACY_BUDGET)],
     expenses |-> <<>>,
     guests |-> <<>>]


----------------------------------------------------------------------------
(* App.compute: the body after the cache test, on document d.               *)

\* Number(x) || k, as an integer
NumberOr(x, k) == Or(Number(x), Num(k)).n

RECURSIVE ExpenseLoop(_, _, _)
ExpenseLoop(exp, i, acc) ==
    IF i > Len(exp) THEN acc
    ELSE ExpenseLoop(exp, i + 1,
            [totalCost |-> acc.totalCost + NumberOr(exp[i].cost, 0),
             totalPaid |-> acc.totalPaid + NumberOr(exp[i].paid, 0)])

StatusBucketKnownOnly(status) ==
    IF status = Str("magia") THEN "confirmed"
    ELSE IF status = Str("lo_magia") THEN "declined"
    ELSE IF status = Str("terem") THEN "pending"
    ELSE "none"

\* the status branch of the guest loop: which counter a guest's cnt goes to
StatusBucket(status) ==
    IF status = Str("magia") THEN "confirmed"
    ELSE IF status = Str("lo_magia") THEN "declined"
    ELSE "pending"

CntOne(count) == 1

\* const cnt = Number(g.count) || 1
Cnt(count) == NumberOr(count, 1)

RECURSIVE GuestLoop(_, _, _)
GuestLoop(gst, i, acc) ==
    IF i > Len(gst) THEN acc
    ELSE LET cnt == Cnt(gst[i].count)
             b == StatusBucket(gst[i].status)
         IN  GuestLoop(gst, i + 1,
                [totalGuests |-> acc.totalGuests + cnt,
                 gifts |-> acc.gifts + NumberOr(gst[i].gift, 0),
                 confirmed |-> acc.confirmed + (IF b = "confirmed" THEN cnt ELSE 0),
                 declined |-> acc.declined + (IF b = "declined" THEN cnt ELSE 0),
                 pending |-> acc.pending + (IF b = "pending" THEN cnt ELSE 0)])

\* tsk.filter(t => t.done).length
DoneCount(tsk) == Cardinality({i \in 1..Len(tsk) : ~Falsy(tsk[i].done)})

FracFloor(q) == q.num \div q.den

\* Math.round(q) of a quotient: floor(q + 1/2)
FracRound(q) == (2 * q.num + q.den) \div (2 * q.den)

Min(a, b) == IF a < b THEN a ELSE b

BudgetLeftFloored(budget, totalPaid) ==
    IF Negative(Minus(budget, Num(totalPaid))) THEN Num(0) ELSE Minus(budget, Num(totalPaid))

\* budgetLeft: this.data.settings.budget - totalPaid
BudgetLeft(budget, totalPaid) == Minus(budget, Num(totalPaid))

\* budgetPercent: budget > 0 ? Math.min(totalPaid / budget, 1) : 0
BudgetPercent(budget, totalPaid) ==
    IF Positive(budget) THEN FracMin(Div(Num(totalPaid), budget), 1) ELSE Frac(0, 1)

ExpRemainingSwapped(totalCost, totalPaid) == totalPaid - totalCost

\* expRemaining: totalCost - totalPaid
ExpRemaining(totalCost, totalPaid) == totalCost - totalPaid

AppSnapshot(d) ==
    LET e == ExpenseLoop(d.expenses, 1, [totalCost |-> 0, totalPaid |-> 0])
        g == GuestLoop(d.guests, 1,
                [totalGuests |-> 0, gifts |-> 0, confirmed |-> 0, declined |-> 0, pending |-> 0])
        doneTasks == DoneCount(d.tasks)
        totalTasks == Len(d.tasks)
        progressItems == totalTasks + 2
        progressDone == doneTasks + (IF Len(d.expenses) > 0 THEN 1 ELSE 0)
                                  + (IF Len(d.guests) > 0 THEN 1 ELSE 0)
        weddingProgress ==
            IF progressItems > 0 THEN FracRound(Frac(progressDone * 100, progressItems)) ELSE 0
    IN  [totalCost |-> e.totalCost,
         totalPaid |-> e.totalPaid,
         expRemaining |-> ExpRemaining(e.totalCost, e.totalPaid),
         budgetLeft |-> BudgetLeft(d.settings.budget, e.totalPaid),
         budgetPercent |-> BudgetPercent(d.settings.budget, e.totalPaid),
         totalGuests |-> g.totalGuests,
         confirmed |-> g.confirmed,
         pending |-> g.pending,
         declined |-> g.declined,
         gifts |-> g.gifts,
         doneTasks |-> doneTasks,
         totalTasks |-> totalTasks,
         taskPercent |-> IF totalTasks > 0 THEN Frac(doneTasks, totalTasks) ELSE Frac(0, 1),
         weddingProgress |-> Min(weddingProgress, 100)]

----------------------------------------------------------------------------
(* WeddingApp._computeTotals: the body after the cache test.                *)

RECURSIVE SpentLoop(_, _, _)
SpentLoop(expenses, i, totalSpent) ==
    IF i > Len(expenses) THEN totalSpent
    ELSE SpentLoop(expenses, i + 1, totalSpent + NumberOr(expenses[i].paid_amount, 0))

RECURSIVE PeopleLoop(_, _, _)
PeopleLoop(guests, i, acc) ==
    IF i > Len(guests) THEN acc
    ELSE PeopleLoop(guests, i + 1,
            [totalGuests |-> acc.totalGuests + NumberOr(guests[i].total_people, 1),
             totalGifts |-> acc.totalGifts + NumberOr(guests[i].gift, 0)])

\* remaining: this.data.settings.total_budget - totalSpent
Remaining(total_budget, totalSpent) == Minus(total_budget, Num(totalSpent))

WeddingAppTotals(d) ==
    LET totalSpent == SpentLoop(d.expenses, 1, 0)
        p == PeopleLoop(d.guests, 1, [totalGuests |-> 0, totalGifts |-> 0])
    IN  [totalSpent |-> totalSpent,
         totalGuests |-> p.totalGuests,
         totalGifts |-> p.totalGifts,
         remaining |-> Remaining(d.settings.total_budget, totalSpent)]

\* WeddingApp.renderDashboard: the progress bar's scaleX
WeddingAppPercent(total_budget, totalSpent) ==
    IF Positive(total_budget) THEN FracMin(Div(Num(totalSpent), total_budget), 1) ELSE Frac(0, 1)

----------------------------------------------------------------------------
(* The first WeddingApp (part_000): renderDashboard computes on every call. *)

\* reduce((acc, curr) => acc + Number(curr.f || 0), 0)
RECURSIVE LegacySpent(_, _, _)
LegacySpent(expenses, i, acc) ==
    IF i > Len(expenses) THEN acc
    ELSE LegacySpent(expenses, i + 1, Plus(acc, Number(Or(expenses[i].paid_amount, Num(0)))))

RECURSIVE LegacyGuests(_, _, _)
LegacyGuests(guests, i, acc) ==
    IF i > Len(guests) THEN acc
    ELSE LegacyGuests(guests, i + 1, Plus(acc, Number(Or(guests[i].total_people, Num(1)))))

RECURSIVE LegacyGifts(_, _, _)
LegacyGifts(guests, i, acc) ==
    IF i > Len(guests) THEN acc
    ELSE LegacyGifts(guests, i + 1, Plus(acc, Number(Or(guests[i].gift, Num(0)))))

\* const remaining = s.total_budget - totalSpent
LegacyRemaining(total_budget, totalSpent) == Minus(total_budget, totalSpent)

\* what renderDashboard writes: budgetLeft's amount and budgetProgress's width in %
LegacyDashboard(d) ==
    LET totalSpent == LegacySpent(d.expenses, 1, Num(0))
        remaining == LegacyRemaining(d.settings.total_budget, totalSpent)
        percent == FracTimes(Div(totalSpent, d.settings.total_budget), 100)
    IN  [rendered |-> TRUE,
         budgetLeft |-> remaining,
         danger |-> Negative(remaining),
         progress |-> FracMin(percent, 100)]

----------------------------------------------------------------------------
(* Storage: JSON.stringify keeps strings, finite numbers, booleans and      *)
(* null, writes NaN as null and leaves out a property that is undefined     *)
(* (kept here as the value Undefined, which no JSON text holds as a value). *)

NoItem == [present |-> FALSE, text |-> <<>>]
Item(text) == [present |-> TRUE, text |-> text]

JsonValue(v) == IF v.t = "NaN" THEN Null ELSE v
JsonObject(o) == [k \in DOMAIN o |-> JsonValue(o[k])]
JsonArray(a) == [i \in 1..Len(a) |-> JsonObject(a[i])]

\* JSON.stringify(this.data)
Stringify(d) ==
    [k \in DOMAIN d |->
        IF k = "onboarded" THEN JsonValue(d[k])
        ELSE IF k = "settings" THEN JsonObject(d[k])
        ELSE JsonArray(d[k])]

SetItemSkipped(text) == stored

\* localStorage.setItem(key, text): the item is written unless the write throws
SetItem(text) == IF storageOk THEN Item(text) ELSE stored

----------------------------------------------------------------------------
(* Array.prototype.splice(start, 1) and push, on 0-based indexes.           *)

Max(a, b) == IF a > b THEN a ELSE b

\* the 0-based position splice(start, 1) removes from, clamped as the language does
SpliceStart(len, start) == IF start < 0 THEN Max(len + start, 0) ELSE Min(start, len)

Splice(list, start) ==
    LET k == SpliceStart(Len(list), start)
    IN  IF k >= Len(list) THEN list
        ELSE SubSeq(list, 1, k) \o SubSeq(list, k + 2, Len(list))

Unshift(list, e) == <<e>> \o list

Push(list, e) == Append(list, e)

----------------------------------------------------------------------------
(* The cache and the render scheduler.                                      *)

\* what compute() / _computeTotals() computes when the cache is empty
Aggregate(d) ==
    CASE app = "App" -> AppSnapshot(d)
      [] app = "WeddingApp" -> WeddingAppTotals(d)
      [] OTHER -> LegacyDashboard(d)

\* compute() / _computeTotals(): the memo when there is one, else a fresh aggregation
Compute(cache, d) == IF cache # Null THEN cache ELSE Aggregate(d)

CacheKept == _cache

\* save() / saveData(): this._cache = null
InvalidatedCache == Null

ScheduleRenderUnguarded(flag, queue) == [flag |-> TRUE, queue |-> queue + 1]

\* scheduleRender() / _scheduleRender(): the flag and the callbacks queued after it
ScheduleRender(flag, queue) ==
    IF flag THEN [flag |-> flag, queue |-> queue]
    ELSE [flag |-> TRUE, queue |-> queue + 1]

FlagLeftSet == _raf

\* the redraw callback: this._raf = false, before renderAll() runs
FlagInCallback == FALSE

----------------------------------------------------------------------------
(* What the user can type or pick.                                          *)

\* the readings of Date.now() a run passes through
ClockReadings == {0, 1}

TitleInputs == {"", "t"}
NameInputs == {"", "n"}
CostInputs == {"", "50000"}
PaidInputs == {"", "50000", "-20000"}
\* the guest forms filled in: count, status, gift
GuestForms == {<<"", "terem", "">>, <<"2", "magia", "">>, <<"3", "lo_magia", "1">>}
BudgetInputs == {"", "10000"}
CategoryOptions == {"ulam"}
\* the first titles of generateDefaultTasks' list
DefaultTitles == <<"ulam", "tsalam", "dj", "simla", "hazmanot", "catering", "rav", "rabanut", "itsuv", "hasaot">>

Lists(d) == DOMAIN d \ {"onboarded", "settings"}

RECURSIVE SumLen(_, _)
SumLen(d, ks) ==
    IF ks = {} THEN 0
    ELSE LET k == CHOOSE x \in ks : TRUE IN Len(d[k]) + SumLen(d, ks \ {k})

Entities(d) == SumLen(d, Lists(d))

\* the application shell is displayed (App hides it until onboarding is finished)
AppShown == IF app = "App" THEN ~Falsy(data.onboarded) ELSE TRUE

----------------------------------------------------------------------------
(* History variables.                                                       *)
(*   saves  save() calls since the last animation frame (counted up to 2)   *)
(*   stale  a mutation has not yet been followed by a redraw                *)
(*   rt     an add, with the document and the snapshot before it, and       *)
(*          whether the added entity has since been deleted by its index;   *)
(*          recorded only in the runs that start with it switched on        *)
(*   out    how the last handler ended: "ok", or "invalid" (it signalled a  *)
(*          required field), or, after a failed write, "noticed", "silent"  *)
(*          or "uncaught"; recorded only in the runs that start with it     *)
(*          other than "off"                                                *)
(*   computes  how often the aggregation has run since the last save();      *)
(*          counted only in the runs that start with it at 0 or more, and    *)
(*          -1 in the others                                                 *)

Untracked == [phase |-> "off", list |-> "", before |-> <<>>, snap |-> Null]

Tracked == [phase |-> "idle", list |-> "", before |-> <<>>, snap |-> Null]

NoRoundTrip == IF hist.rt.phase = "off" THEN Untracked ELSE Tracked

InitHist(saves, rt) ==
    [saves |-> saves, stale |-> FALSE, rt |-> rt, out |-> "off", computes |-> -1]

\* the count n, where aggregations are counted
Counted(n) == IF hist.computes < 0 THEN -1 ELSE n

ComputesAlways(cache) == 1

\* how often one call of compute() / _computeTotals() runs the aggregation:
\* not at all when there is a memo
Computes(cache) == IF cache # Null THEN 0 ELSE 1

\* the count after one more call of compute() / _computeTotals()
Recomputed(cache) ==
    IF hist.computes < 0 THEN -1 ELSE hist.computes + Computes(cache)

\* the outcome o, where outcomes are recorded
Outcome(o) == IF hist.out = "off" THEN "off" ELSE o

\* how a handler that called save() / saveData() ended: normally; after save()
\* caught the failed write and showed the toast (App); after saveData() caught
\* it and wrote to the console only (WeddingApp of script.js); or by the
\* exception of setItem leaving saveData() and the handler (part_000)
SaveOutcome ==
    IF storageOk THEN "ok"
    ELSE CASE app = "App" -> "noticed"
           [] app = "WeddingApp" -> "silent"
           [] OTHER -> "uncaught"

Added(list) ==
    IF hist.rt.phase = "off" THEN Untracked
    ELSE [phase |-> "added", list |-> list, before |-> data, snap |-> Compute(_cache, data)]

\* after deleting index idx of list: the round trip is complete when idx is the
\* index the last add gave its entity and nothing else has mutated since
Deleted(list, idx) ==
    IF hist.rt.phase = "added" /\ hist.rt.list = list /\ idx = Len(hist.rt.before[list])
    THEN [hist.rt EXCEPT !.phase = "deleted"]
    ELSE NoRoundTrip

\* a handler that mutated and called save(); redrawn: it also redrew synchronously
Mutated(rt, redrawn) ==
    [saves |-> Min(hist.saves + 1, 2), stale |-> ~redrawn, rt |-> rt,
     out |-> Outcome(SaveOutcome), computes |-> Counted(0)]

\* a handler that changed nothing in the document
Idle == [hist EXCEPT !.rt = NoRoundTrip, !.out = Outcome("ok")]

\* a handler that returned early: o says why
Returned(o) == [hist EXCEPT !.rt = NoRoundTrip, !.out = Outcome(o)]

----------------------------------------------------------------------------
(* The countdown: the handle the page keeps and the intervals that run.     *)

Timers == [handle |-> _countdownTimer, active |-> intervals]

SetTimers(t) ==
    /\ _countdownTimer' = t.handle
    /\ intervals' = t.active

\* a page that has started no interval
NoTimers == [handle |-> "null", active |-> 0]

ClearIntervalIgnored(t) == t

\* clearInterval(handle): stops the interval the handle names, if it still runs
ClearInterval(t) ==
    IF t.handle = "live" THEN [handle |-> "cleared", active |-> t.active - 1] ELSE t

\* handle = setInterval(update, ..): one more interval, named by the handle
SetInterval(t) == [handle |-> "live", active |-> t.active + 1]

\* startCountdown(): App clears the interval its handle names first, WeddingApp
\* of script.js does not, part_000 does not keep the handle at all
StartCountdown(t) ==
    CASE app = "App" -> SetInterval(IF t.handle # "null" THEN ClearInterval(t) ELSE t)
      [] app = "WeddingApp" -> SetInterval(t)
      [] OTHER -> [t EXCEPT !.active = @ + 1]

\* the end of the settings handler: clearInterval and startCountdown() in
\* script.js, nothing in part_000
RestartCountdown(t) == IF app = "Legacy" THEN t ELSE StartCountdown(ClearInterval(t))

----------------------------------------------------------------------------
(* save() / saveData() on document d: the values it leaves.                 *)

AfterSave(d) ==
    LET r == ScheduleRender(_raf, rafQueue)
    IN  [stored |-> SetItem(Stringify(d)),
         cache |-> InvalidatedCache,
         flag |-> r.flag,
         queue |-> r.queue]

\* App.save / WeddingApp.saveData of script.js, then nothing that reads the cache
Save(d) ==
    LET a == AfterSave(d)
    IN  /\ stored' = a.stored
        /\ _cache' = a.cache
        /\ _raf' = a.flag
        /\ rafQueue' = a.queue

\* saveData of part_000: setItem, then renderDashboard(); a throwing setItem
\* leaves the handler before the render
LegacySave(d) ==
    /\ stored' = SetItem(Stringify(d))
    /\ UNCHANGED <<_cache, _raf, rafQueue>>

SaveData(d) == IF app = "Legacy" THEN LegacySave(d) ELSE Save(d)

\* whether the handler's save also redrew the dashboard before returning
RedrawnBySave == app = "Legacy" /\ storageOk

----------------------------------------------------------------------------
(* Initial state: init() on a browser whose storage holds no document.      *)

InitApp ==
    /\ app = "App"
    /\ data = defaults
    /\ stored = NoItem
    /\ _cache = Null
    /\ _raf = FALSE
    /\ rafQueue = 0
    /\ _countdownTimer = "null"
    /\ intervals = 0

\* loadData() finds nothing and calls saveData(); init() then renders
InitWeddingApp ==
    /\ app = "WeddingApp"
    /\ data = WeddingAppData
    /\ stored = (IF storageOk THEN Item(Stringify(WeddingAppData)) ELSE NoItem)
    /\ _cache = Aggregate(WeddingAppData)
    /\ _raf = TRUE
    /\ rafQueue = 1
    /\ _countdownTimer = "live"
    /\ intervals = 1

InitLegacy ==
    /\ app = "Legacy"
    /\ data = WeddingAppData
    /\ stored = (IF storageOk THEN Item(Stringify(WeddingAppData)) ELSE NoItem)
    /\ _cache = Null
    /\ _raf = FALSE
    /\ rafQueue = 0
    /\ _countdownTimer = "null"
    /\ intervals = 1

\* the saves init() has made: loadData()'s saveData() of script.js
InitSaves == IF app = "WeddingApp" THEN 1 ELSE 0

Started ==
    /\ storageOk = TRUE
    /\ onclick = "none"
    /\ now = 0
    /\ result = Null
    /\ (InitApp \/ InitWeddingApp \/ InitLegacy)
    /\ guestSearch = ""
    /\ debounceTimer = FALSE
    /\ _guestSearchText = ""

\* the specification does not follow what the lists and the modal show
NotFollowed == "off"

\* the rows of the guest list and of the task list as the page shows them:
\* each with the index its buttons carry and the entity it displays
NoRows == [on |-> FALSE, guests |-> <<>>, tasks |-> <<>>]

EmptyLists == [on |-> TRUE, guests |-> <<>>, tasks |-> <<>>]

Unfollowed ==
    /\ rows = NoRows
    /\ display = NotFollowed
    /\ cleanups = -1

Init == Started /\ Unfollowed /\ hist = InitHist(InitSaves, Untracked)

\* the same start, with the add-then-delete history switched on
InitRoundTrip == Started /\ Unfollowed /\ hist = InitHist(InitSaves, Tracked)

----------------------------------------------------------------------------
(* The entities the save handlers build from the form.                      *)

NewExpense(title, category, cost, paid) ==
    CASE app = "App" ->
            [id |-> Num(now),
             title |-> Str(title),
             category |-> Str(category),
             cost |-> Or(Number(Str(cost)), Num(0)),
             paid |-> Or(Number(Str(paid)), Num(0)),
             created |-> Num(now)]
      [] app = "WeddingApp" ->
            [title |-> Str(title),
             estimated_cost |-> Number(Str(cost)),
             paid_amount |-> Or(Number(Str(paid)), Num(0))]
      [] OTHER ->
            [title |-> Str(title),
             estimated_cost |-> Str(cost),
             paid_amount |-> Or(Str(paid), Num(0))]

NewGuest(name, count, status, gift) ==
    CASE app = "App" ->
            [id |-> Num(now),
             name |-> Str(name),
             count |-> Or(Number(Str(count)), Num(1)),
             status |-> Str(status),
             gift |-> Or(Number(Str(gift)), Num(0)),
             created |-> Num(now)]
      [] app = "WeddingApp" ->
            [name |-> Str(name),
             total_people |-> Or(Number(Str(count)), Num(1)),
             status |-> Str(status),
             gift |-> Or(Number(Str(gift)), Num(0))]
      [] OTHER ->
            [name |-> Str(name),
             total_people |-> Str(count),
             status |-> Str(status),
             gift |-> Or(Str(gift), Num(0))]

NewTask(title) ==
    [id |-> Num(now), title |-> Str(title), done |-> Bool(FALSE), created |-> Num(now)]

\* generateDefaultTasks: id Date.now() + i for the i-th entry of the list
GeneratedTasks ==
    [i \in 1..DefaultTaskCount |->
        [id |-> Num(now + (i - 1)), title |-> Str(DefaultTitles[i]), done |-> Bool(FALSE),
         created |-> Num(now)]]

\* the required fields of the expense form: if (!title ...) / if (!cost ...)
ExpenseFormValid(title, cost) == ~Falsy(Str(title)) /\ ~Falsy(Str(cost))

\* the guest form: if (!name) in script.js; part_000 tests nothing
GuestFormValid(name) == app = "Legacy" \/ ~Falsy(Str(name))

TaskFormValid(title) == ~Falsy(Str(title))

\* the budget the settings form stores
SettingsBudget(v) == IF app = "Legacy" THEN Str(v) ELSE Or(Number(Str(v)), Num(0))

WithBudget(d, b) ==
    IF app = "App" THEN [d EXCEPT !.settings.budget = b]
    ELSE [d EXCEPT !.settings.total_budget = b]

----------------------------------------------------------------------------
(* The guest search box.                                                    *)

\* what is typed into the search box: a name, the name and a space, nothing
SearchTexts == {"", "n", "n "}

\* String.prototype.trim on the texts of the search box
Trim(text) == IF text = "n " THEN "n" ELSE text

\* the text renderGuests filters by when called with filterText: script.js
\* trims it, part_000 takes it as it is
FilterText(text) == IF app = "Legacy" THEN text ELSE Trim(text)

\* String.prototype.includes on the names and the search texts of the model
Includes(name, text) == text = "" \/ name = text

\* the members of a set of indices in ascending order
Ascending(S) ==
    CHOOSE f \in [1..Cardinality(S) -> S] : \A i, j \in 1..Cardinality(S) : i < j => f[i] < f[j]

\* list.filter(g => g.name.includes(text)), as the indices it keeps
Filtered(list, text) == Ascending({i \in 1..Len(list) : Includes(list[i].name.s, text)})

\* renderGuests: one row for each guest the filter keeps.  script.js writes
\* the guest's index in this.data.guests on the delete button, part_000 the
\* index map() passes, which counts within the filtered list
GuestRows(d, text) ==
    LET kept == Filtered(d.guests, text)
    IN  [k \in 1..Len(kept) |->
            [idx |-> IF app = "Legacy" THEN k - 1 ELSE kept[k] - 1,
             shows |-> d.guests[kept[k]]]]

\* renderTasks: the open tasks before the done ones, each row with
\* this.data.tasks.indexOf(t)
TaskRows(d) ==
    LET order == Ascending({i \in 1..Len(d.tasks) : Falsy(d.tasks[i].done)})
                 \o Ascending({i \in 1..Len(d.tasks) : ~Falsy(d.tasks[i].done)})
    IN  [k \in 1..Len(order) |-> [idx |-> order[k] - 1, shows |-> d.tasks[order[k]]]]

\* the rows after renderGuests(text) on the document d
WithGuestRows(d, text) ==
    IF rows.on THEN [rows EXCEPT !.guests = GuestRows(d, text)] ELSE rows

\* the rows after renderAll() of App
RenderAll(d, text) ==
    IF rows.on THEN [rows EXCEPT !.guests = GuestRows(d, text), !.tasks = TaskRows(d)] ELSE rows

\* the guest list after a handler of WeddingApp that ends with
\* renderGuests(text); App's handlers leave the list to the next frame, and
\* part_000's do not reach the call when saveData() threw
GuestsRenderedBy(text) ==
    IF app = "App" \/ (app = "Legacy" /\ ~storageOk)
    THEN UNCHANGED <<_guestSearchText, rows>>
    ELSE /\ _guestSearchText' = FilterText(text)
         /\ rows' = WithGuestRows(data', FilterText(text))

----------------------------------------------------------------------------
(* Actions: one per event handler.                                          *)

Tick ==
    /\ now + 1 \in ClockReadings
    /\ now' = now + 1
    /\ UNCHANGED <<app, data, stored, storageOk, _cache, _raf, rafQueue, result, onclick, hist>>
    /\ UNCHANGED domVars
    /\ UNCHANGED <<_countdownTimer, intervals>>

\* showModal(): modal.style.display = 'flex'
ShowModal == display' = (IF display = NotFollowed THEN display ELSE "open")

\* closeModal() at the end of a save handler: the class show is removed and the
\* cleanup is left to a timeout; part_000 does not reach the call when
\* saveData() threw
CloseModal ==
    IF display = NotFollowed \/ (app = "Legacy" /\ ~storageOk)
    THEN UNCHANGED <<display, cleanups>>
    ELSE /\ cleanups < MaxCleanups
         /\ display' = "closing"
         /\ cleanups' = cleanups + 1

\* the save button can be clicked while the modal is displayed
Clickable == display # "none"

\* open*Modal(): installs the save button's handler and shows the modal
Open(kind) ==
    /\ AppShown
    /\ onclick' = kind
    /\ ShowModal
    /\ hist' = Idle
    /\ UNCHANGED <<app, data, stored, storageOk, _cache, _raf, rafQueue, result, now>>
    /\ UNCHANGED <<guestSearch, debounceTimer, _guestSearchText, rows, cleanups>>
    /\ UNCHANGED <<_countdownTimer, intervals>>

OpenExpenseModal == Open("expense")
OpenGuestModal == Open("guest")
OpenTaskModal == app = "App" /\ Open("task")
OpenSettings == Open("settings")

\* a handler that returns before it changes anything
Nothing(o) ==
    /\ hist' = Returned(o)
    /\ UNCHANGED <<data, stored, _cache, _raf, rafQueue>>

\* push the entity, save, and leave the history of an add
Add(list, e) ==
    LET d == [data EXCEPT ![list] = Push(@, e)]
    IN  /\ Entities(data) < MaxEntities
        /\ data' = d
        /\ SaveData(d)
        /\ hist' = Mutated(Added(list), RedrawnBySave)

\* the expense handler on the form's values
ExpenseSubmit(title, category, cost, paid) ==
    IF ExpenseFormValid(title, cost)
    THEN Add("expenses", NewExpense(title, category, cost, paid)) /\ CloseModal
    ELSE Nothing("invalid") /\ UNCHANGED <<display, cleanups>>

\* modalSave.onclick of openExpenseModal
SaveExpense ==
    /\ onclick = "expense"
    /\ Clickable
    /\ \E title \in TitleInputs, category \in CategoryOptions, cost \in CostInputs, paid \in PaidInputs :
          ExpenseSubmit(title, category, cost, paid)
    /\ UNCHANGED <<app, storageOk, result, onclick, now, _countdownTimer, intervals>>
    /\ UNCHANGED <<guestSearch, debounceTimer, _guestSearchText, rows>>

\* the guest handler on the form's values
GuestSubmit(name, f) ==
    IF GuestFormValid(name)
    THEN Add("guests", NewGuest(name, f[1], f[2], f[3])) /\ CloseModal /\ GuestsRenderedBy("")
    ELSE Nothing("invalid") /\ UNCHANGED <<_guestSearchText, rows, display, cleanups>>

\* modalSave.onclick of openGuestModal
SaveGuest ==
    /\ onclick = "guest"
    /\ Clickable
    /\ \E name \in NameInputs, f \in GuestForms : GuestSubmit(name, f)
    /\ UNCHANGED <<app, storageOk, result, onclick, now, _countdownTimer, intervals>>
    /\ UNCHANGED <<guestSearch, debounceTimer>>

\* the task handler on the form's value
TaskSubmit(title) ==
    IF TaskFormValid(title)
    THEN Add("tasks", NewTask(title)) /\ CloseModal
    ELSE Nothing("invalid") /\ UNCHANGED <<display, cleanups>>

\* modalSave.onclick of openTaskModal
SaveTask ==
    /\ onclick = "task"
    /\ Clickable
    /\ \E title \in TitleInputs : TaskSubmit(title)
    /\ UNCHANGED <<app, storageOk, result, onclick, now, _countdownTimer, intervals>>
    /\ UNCHANGED <<guestSearch, debounceTimer, _guestSearchText, rows>>

\* the settings handler on the budget input's value
SettingsSubmit(v) ==
    LET d == WithBudget(data, SettingsBudget(v))
    IN  /\ data' = d
        /\ SaveData(d)
        /\ SetTimers(RestartCountdown(Timers))
        /\ CloseModal
        /\ hist' = Mutated(NoRoundTrip, RedrawnBySave)

\* modalSave.onclick of openSettings / openSettingsModal
SaveSettings ==
    /\ onclick = "settings"
    /\ Clickable
    /\ \E v \in BudgetInputs : SettingsSubmit(v)
    /\ UNCHANGED <<app, storageOk, result, onclick, now>>
    /\ UNCHANGED <<guestSearch, debounceTimer, _guestSearchText, rows>>

\* finishOnboarding(): settings, default tasks, save(), then showApp() renders
FinishOnboarding ==
    /\ app = "App"
    /\ ~AppShown
    /\ \E obBudget \in BudgetInputs, obGuests \in {""} :
          LET d == [data EXCEPT
                      !.settings.budget = Or(Number(Str(obBudget)), Num(DEFAULT_BUDGET)),
                      !.settings.guest_estimate = Or(Number(Str(obGuests)), Num(DEFAULT_GUEST_ESTIMATE)),
                      !.onboarded = Bool(TRUE),
                      !.tasks = GeneratedTasks]
              a == AfterSave(d)
              c == Compute(a.cache, d)
          IN  /\ data' = d
              /\ stored' = a.stored
              /\ _raf' = a.flag
              /\ rafQueue' = a.queue
              /\ _cache' = c
              /\ SetTimers(StartCountdown(Timers))
              /\ rows' = RenderAll(d, _guestSearchText)
              /\ hist' = [Mutated(NoRoundTrip, TRUE) EXCEPT !.computes = Counted(Computes(a.cache))]
    /\ UNCHANGED <<app, storageOk, result, onclick, now>>
    /\ UNCHANGED <<guestSearch, debounceTimer, _guestSearchText, display, cleanups>>

\* the indices a delete or toggle is called with: those of the list, the one
\* past its end (a row rendered before the list shrank) and -1
RowIndices(list) == -1..Len(list)

DeleteUnasked(list, idx, ok) ==
    LET d == [data EXCEPT ![list] = Splice(@, idx)]
    IN  /\ data' = d
        /\ SaveData(d)
        /\ hist' = Mutated(Deleted(list, idx), RedrawnBySave)

\* deleteExpense / deleteGuest / deleteTask / deleteItem: idx is the index the
\* call carries, ok the answer to confirm() (a declined call returns before it
\* reads idx: the actions take one index for it)
Delete(list, idx, ok) ==
    IF ~ok THEN Nothing("ok")
    ELSE LET d == [data EXCEPT ![list] = Splice(@, idx)]
         IN  /\ data' = d
             /\ SaveData(d)
             /\ hist' = Mutated(Deleted(list, idx), RedrawnBySave)

DeleteExpense ==
    /\ AppShown
    /\ \/ \E idx \in RowIndices(data.expenses) : Delete("expenses", idx, TRUE)
       \/ \E idx \in {0} : Delete("expenses", idx, FALSE)
    /\ UNCHANGED <<app, storageOk, result, onclick, now, _countdownTimer, intervals>>
    /\ UNCHANGED domVars

DeleteGuest ==
    /\ AppShown
    /\ \/ \E idx \in RowIndices(data.guests) :
            /\ Delete("guests", idx, TRUE)
            /\ GuestsRenderedBy(IF app = "Legacy" THEN "" ELSE guestSearch)
       \/ \E idx \in {0} : Delete("guests", idx, FALSE) /\ UNCHANGED <<_guestSearchText, rows>>
    /\ UNCHANGED <<app, storageOk, result, onclick, now, _countdownTimer, intervals>>
    /\ UNCHANGED <<guestSearch, debounceTimer, display, cleanups>>

DeleteTask ==
    /\ app = "App"
    /\ AppShown
    /\ \/ \E idx \in RowIndices(data.tasks) : Delete("tasks", idx, TRUE)
       \/ \E idx \in {0} : Delete("tasks", idx, FALSE)
    /\ UNCHANGED <<app, storageOk, result, onclick, now, _countdownTimer, intervals>>
    /\ UNCHANGED domVars

ToggledOn(d, idx) == [d EXCEPT !.tasks[idx + 1].done = Bool(TRUE)]

\* this.data.tasks[idx].done = !this.data.tasks[idx].done
Toggled(d, idx) == [d EXCEPT !.tasks[idx + 1].done = Bool(Falsy(@))]

\* toggleTask(idx)
ToggleTaskAt(idx) ==
    IF idx < 0 \/ idx >= Len(data.tasks) THEN Nothing("ok")
    ELSE LET d == Toggled(data, idx)
         IN  /\ data' = d
             /\ SaveData(d)
             /\ hist' = Mutated(NoRoundTrip, FALSE)

ToggleTask ==
    /\ app = "App"
    /\ AppShown
    /\ \E idx \in RowIndices(data.tasks) : ToggleTaskAt(idx)
    /\ UNCHANGED <<app, storageOk, result, onclick, now, _countdownTimer, intervals>>
    /\ UNCHANGED domVars

----------------------------------------------------------------------------
(* Loading: init() on a page whose storage holds st.                        *)

\* an item whose text JSON.parse rejects
Corrupt == [present |-> TRUE, text |-> <<>>]

Parses(st) == st # Corrupt

\* JSON.parse of a value: what the text can hold
ParseValue(v) == IF v.t \in {"number", "string", "boolean", "null"} THEN v ELSE Undefined
ParseObject(o) == [k \in DOMAIN o |-> ParseValue(o[k])]
ParseArray(a) == [i \in 1..Len(a) |-> ParseObject(a[i])]

\* JSON.parse(raw)
Parse(text) ==
    [k \in DOMAIN text |->
        IF k = "onboarded" THEN ParseValue(text[k])
        ELSE IF k = "settings" THEN ParseObject(text[k])
        ELSE ParseArray(text[k])]

SpreadUnder(a, b) == [k \in DOMAIN a \cup DOMAIN b |-> IF k \in DOMAIN a THEN a[k] ELSE b[k]]

\* { ...a, ...b }
Spread(a, b) == [k \in DOMAIN a \cup DOMAIN b |-> IF k \in DOMAIN b THEN b[k] ELSE a[k]]

LoadSkippingOnboarding(st) ==
    IF st.present /\ Parses(st)
    THEN LET parsed == Parse(st.text)
         IN  [Spread(defaults, parsed) EXCEPT !.settings = Spread(defaults.settings, parsed.settings)]
    ELSE [defaults EXCEPT !.onboarded = Bool(TRUE)]

\* App.load: parsed over the defaults, settings merged field by field;
\* the defaults when nothing is stored or the text does not parse
Load(st) ==
    IF st.present /\ Parses(st)
    THEN LET parsed == Parse(st.text)
         IN  [Spread(defaults, parsed) EXCEPT !.settings = Spread(defaults.settings, parsed.settings)]
    ELSE defaults

\* the document after WeddingApp.loadData of script.js: cur is this.data before
LoadData(st, cur) ==
    IF st.present /\ Parses(st)
    THEN LET parsed == Parse(st.text)
         IN  [settings |-> Spread(cur.settings, parsed.settings),
              expenses |-> parsed.expenses,
              guests |-> parsed.guests]
    ELSE cur

\* the document after loadData of part_000
LegacyLoadData(st, cur) == IF st.present /\ Parses(st) THEN Parse(st.text) ELSE cur

\* what loadData's saveData() writes when nothing is stored
FirstWrite(st, d) == IF storageOk THEN Item(Stringify(d)) ELSE st

\* the page after init(), from storage st
Boot(st) ==
    CASE app = "App" ->
            LET d == Load(st)
            IN  [data |-> d, stored |-> st,
                 cache |-> IF Falsy(d.onboarded) THEN Null ELSE AppSnapshot(d),
                 flag |-> FALSE, queue |-> 0, saves |-> 0,
                 timers |-> IF Falsy(d.onboarded) THEN NoTimers ELSE StartCountdown(NoTimers)]
      [] app = "WeddingApp" ->
            LET d == LoadData(st, WeddingAppData)
            IN  [data |-> d,
                 stored |-> IF st.present THEN st ELSE FirstWrite(st, d),
                 cache |-> WeddingAppTotals(d),
                 flag |-> ~st.present,
                 queue |-> IF st.present THEN 0 ELSE 1,
                 saves |-> IF st.present THEN 0 ELSE 1,
                 timers |-> StartCountdown(NoTimers)]
      [] OTHER ->
            LET d == LegacyLoadData(st, WeddingAppData)
            IN  [data |-> d,
                 stored |-> IF st.present THEN st ELSE FirstWrite(st, d),
                 cache |-> Null, flag |-> FALSE, queue |-> 0, saves |-> 0,
                 timers |-> StartCountdown(NoTimers)]

Booted(st) ==
    LET b == Boot(st)
    IN  /\ data' = b.data
        /\ stored' = b.stored
        /\ _cache' = b.cache
        /\ _raf' = b.flag
        /\ rafQueue' = b.queue
        /\ SetTimers(b.timers)
        /\ guestSearch' = ""
        /\ debounceTimer' = FALSE
        /\ _guestSearchText' = ""
        /\ onclick' = "none"
        /\ hist' = [saves |-> b.saves, stale |-> FALSE, rt |-> NoRoundTrip,
                    computes |-> Counted(IF b.cache # Null THEN 1 ELSE 0),
                    out |-> Outcome("ok")]

\* the page is reloaded
Reload ==
    /\ Booted(stored)
    /\ UNCHANGED <<app, storageOk, result, now>>
    /\ UNCHANGED <<rows, display, cleanups>>

ResetClickKeeping(ok) ==
    IF ok THEN Booted(stored)
    ELSE Nothing("ok") /\ UNCHANGED <<onclick, _countdownTimer, intervals, guestSearch, debounceTimer, _guestSearchText>>

\* the click handler of mSReset: confirm(), removeItem, location.reload()
ResetClick(ok) ==
    IF ok THEN Booted(NoItem)
    ELSE Nothing("ok") /\ UNCHANGED <<onclick, _countdownTimer, intervals, guestSearch, debounceTimer, _guestSearchText>>

ResetAll ==
    /\ app = "App"
    /\ onclick = "settings"
    /\ \E ok \in BOOLEAN : ResetClick(ok)
    /\ UNCHANGED <<app, storageOk, result, now>>
    /\ UNCHANGED <<rows, display, cleanups>>

\* the animation frame: every queued redraw callback runs
Frame ==
    /\ rafQueue > 0
    /\ _raf' = FlagInCallback
    /\ rafQueue' = 0
    /\ _cache' = Compute(_cache, data)
    /\ hist' = [hist EXCEPT !.saves = 0, !.stale = FALSE, !.out = Outcome("ok"),
                             !.computes = Recomputed(_cache)]
    /\ rows' = (IF app = "App" THEN RenderAll(data, _guestSearchText) ELSE rows)
    /\ UNCHANGED <<app, data, stored, storageOk, result, onclick, now>>
    /\ UNCHANGED <<guestSearch, debounceTimer, _guestSearchText, display, cleanups>>
    /\ UNCHANGED <<_countdownTimer, intervals>>

\* a filter chip of App: renderExpenses() / renderGuests() read compute()
ChipClick ==
    /\ app = "App"
    /\ AppShown
    /\ _cache' = Compute(_cache, data)
    /\ hist' = [Idle EXCEPT !.computes = Recomputed(_cache)]
    /\ UNCHANGED <<app, data, stored, storageOk, _raf, rafQueue, result, onclick, now>>
    /\ UNCHANGED domVars
    /\ UNCHANGED <<_countdownTimer, intervals>>

\* the listener of the search box on text: debounce()'s wrapper in script.js
\* (clearTimeout, setTimeout), renderGuests(text) at once in part_000
SearchInput(text) ==
    /\ guestSearch' = text
    /\ IF app = "Legacy"
       THEN /\ _guestSearchText' = FilterText(text)
            /\ rows' = WithGuestRows(data, FilterText(text))
            /\ UNCHANGED debounceTimer
       ELSE debounceTimer' = TRUE /\ UNCHANGED <<_guestSearchText, rows>>

\* a key is pressed in the search box
GuestSearchInput ==
    /\ AppShown
    /\ \E text \in SearchTexts \ {guestSearch} : SearchInput(text)
    /\ hist' = Idle
    /\ UNCHANGED <<app, data, stored, storageOk, _cache, _raf, rafQueue, result, onclick, now>>
    /\ UNCHANGED <<_countdownTimer, intervals, display, cleanups>>

\* the timeout of debounce() runs: the callback reads the box and renders the
\* guest list, which in App reads compute()
SearchTimeout ==
    /\ debounceTimer
    /\ debounceTimer' = FALSE
    /\ _guestSearchText' = Trim(guestSearch)
    /\ rows' = WithGuestRows(data, Trim(guestSearch))
    /\ _cache' = (IF app = "App" THEN Compute(_cache, data) ELSE _cache)
    /\ hist' = (IF app = "App" THEN [Idle EXCEPT !.computes = Recomputed(_cache)] ELSE Idle)
    /\ UNCHANGED <<app, data, stored, storageOk, _raf, rafQueue, result, onclick, now>>
    /\ UNCHANGED <<_countdownTimer, intervals, guestSearch, display, cleanups>>

\* the timeout closeModal() set runs: the modal is hidden and, in script.js,
\* the save button's handler removed
CleanupTimeout ==
    /\ cleanups > 0
    /\ cleanups' = cleanups - 1
    /\ display' = "none"
    /\ onclick' = (IF app = "Legacy" THEN onclick ELSE "none")
    /\ hist' = Idle
    /\ UNCHANGED <<app, data, stored, storageOk, _cache, _raf, rafQueue, result, now>>
    /\ UNCHANGED <<_countdownTimer, intervals, guestSearch, debounceTimer, _guestSearchText, rows>>

\* a click on the delete button of the r-th row of the guest list, confirmed
RowDeleteGuestAt(r) ==
    /\ Delete("guests", rows.guests[r].idx, TRUE)
    /\ GuestsRenderedBy(IF app = "Legacy" THEN "" ELSE guestSearch)

RowDeleteGuest ==
    /\ AppShown
    /\ \E r \in 1..Len(rows.guests) : RowDeleteGuestAt(r)
    /\ UNCHANGED <<app, storageOk, result, onclick, now, _countdownTimer, intervals>>
    /\ UNCHANGED <<guestSearch, debounceTimer, display, cleanups>>

\* a click on the delete button of the r-th row of the task list, confirmed
RowDeleteTaskAt(r) == Delete("tasks", rows.tasks[r].idx, TRUE)

RowDeleteTask ==
    /\ app = "App"
    /\ AppShown
    /\ \E r \in 1..Len(rows.tasks) : RowDeleteTaskAt(r)
    /\ UNCHANGED <<app, storageOk, result, onclick, now, _countdownTimer, intervals>>
    /\ UNCHANGED domVars

\* a click on the checkbox of the r-th row of the task list
RowToggleTaskAt(r) == ToggleTaskAt(rows.tasks[r].idx)

RowToggleTask ==
    /\ app = "App"
    /\ AppShown
    /\ \E r \in 1..Len(rows.tasks) : RowToggleTaskAt(r)
    /\ UNCHANGED <<app, storageOk, result, onclick, now, _countdownTimer, intervals>>
    /\ UNCHANGED domVars

\* the handlers the page binds, and the animation frame
Handlers ==
    \/ OpenExpenseModal
    \/ OpenGuestModal
    \/ OpenTaskModal
    \/ OpenSettings
    \/ SaveExpense
    \/ SaveGuest
    \/ SaveTask
    \/ SaveSettings
    \/ FinishOnboarding
    \/ DeleteExpense
    \/ DeleteGuest
    \/ DeleteTask
    \/ ToggleTask
    \/ Frame
    \/ ChipClick

Next == Tick \/ Handlers

\* the handlers, and the page being loaded again
Page == Handlers \/ Reload \/ ResetAll

Spec == Init /\ [][Next]_vars

\* animation frames fire: a queued callback is eventually run. Scheduling reads
\* neither the clock nor the ids taken from it: these runs are the ones within
\* one reading of Date.now().
FairSpec == Init /\ [][Handlers]_vars /\ WF_vars(Frame)

SpecRoundTrip == InitRoundTrip /\ [][Next]_vars

\* the same start, with the runs of the aggregation counted: init() of
\* WeddingApp has rendered the dashboard once
InitMemo ==
    /\ Started
    /\ Unfollowed
    /\ hist = [InitHist(InitSaves, Untracked) EXCEPT !.computes = IF app = "WeddingApp" THEN 1 ELSE 0]

SpecMemo == InitMemo /\ [][Handlers]_vars

\* init() on a browser whose storage is empty or holds text that does not
\* parse, and whose setItem succeeds or throws; the handlers' outcomes recorded
InitStorage ==
    /\ app \in {"App", "WeddingApp", "Legacy"}
    /\ storageOk \in BOOLEAN
    /\ now = 0
    /\ result = Null
    /\ onclick = "none"
    /\ \E st \in {NoItem, Corrupt} :
          LET b == Boot(st)
          IN  /\ data = b.data
              /\ stored = b.stored
              /\ _cache = b.cache
              /\ _raf = b.flag
              /\ rafQueue = b.queue
              /\ _countdownTimer = b.timers.handle
              /\ intervals = b.timers.active
              /\ guestSearch = ""
              /\ debounceTimer = FALSE
              /\ _guestSearchText = ""
              /\ Unfollowed
              /\ hist = [saves |-> b.saves, stale |-> FALSE, rt |-> Untracked, out |-> "ok",
                         computes |-> -1]

SpecStorage == InitStorage /\ [][Page]_vars

\* the guest list under the search box: guests are added and deleted while
\* text is typed
Search ==
    \/ FinishOnboarding
    \/ OpenGuestModal
    \/ SaveGuest
    \/ DeleteGuest
    \/ GuestSearchInput
    \/ SearchTimeout
    \/ Frame

SpecSearch == Init /\ [][Search]_vars

\* the lists as the page shows them: entities are added, the guest list is
\* searched, and rows are clicked
RowClicks ==
    \/ FinishOnboarding
    \/ OpenGuestModal
    \/ SaveGuest
    \/ OpenTaskModal
    \/ SaveTask
    \/ GuestSearchInput
    \/ SearchTimeout
    \/ RowDeleteGuest
    \/ RowDeleteTask
    \/ RowToggleTask
    \/ Frame

\* init() has drawn no row: the lists are empty
InitRows ==
    /\ Started
    /\ rows = EmptyLists
    /\ display = NotFollowed
    /\ cleanups = -1
    /\ hist = InitHist(InitSaves, Untracked)

SpecRows == InitRows /\ [][RowClicks]_vars

\* the modal: forms are opened and saved while the timeouts of closeModal()
\* are pending
Modal ==
    \/ FinishOnboarding
    \/ OpenExpenseModal
    \/ OpenGuestModal
    \/ OpenTaskModal
    \/ OpenSettings
    \/ SaveExpense
    \/ SaveGuest
    \/ SaveTask
    \/ SaveSettings
    \/ CleanupTimeout
    \/ Frame

\* the modal of a page just loaded is hidden and no timeout is pending
InitModal ==
    /\ Started
    /\ rows = NoRows
    /\ display = "none"
    /\ cleanups = 0
    /\ hist = InitHist(InitSaves, Untracked)

SpecModal == InitModal /\ [][Modal]_vars

----------------------------------------------------------------------------
(* The aggregation as a function of the document: documents built by the    *)
(* save handlers from sample forms, and one call of the aggregation each.   *)

AggMaxExpenses == 1
AggMaxGuests == 3

SeqsUpTo(S, n) == UNION {[1..k -> S] : k \in 0..n}

\* cost and paid of the sample expense forms
AggExpenseForms == {<<"50000", "20000">>, <<"50000", "50000">>, <<"10000", "">>}

AggBudgetInputs == {"0", "10000", "100000"}

\* the guests the sample forms give, one with a status outside the three
\* options and one whose status is missing
AggGuests ==
    {NewGuest("n", f[1], f[2], f[3]) : f \in GuestForms}
        \cup {NewGuest("n", "2", "?", ""),
              [NewGuest("n", "1", "magia", "") EXCEPT !.status = Undefined]}

AggDocuments ==
    {[WithBudget(IF app = "App" THEN defaults ELSE WeddingAppData, SettingsBudget(b))
        EXCEPT !.expenses = [i \in DOMAIN fs |-> NewExpense("t", "ulam", fs[i][1], fs[i][2])],
               !.guests = gs] :
        b \in AggBudgetInputs,
        fs \in SeqsUpTo(AggExpenseForms, AggMaxExpenses),
        gs \in SeqsUpTo(AggGuests, AggMaxGuests)}

InitAgg ==
    /\ app \in {"App", "WeddingApp", "Legacy"}
    /\ now = 0
    /\ storageOk = TRUE
    /\ onclick = "none"
    /\ stored = NoItem
    /\ _cache = Null
    /\ _raf = FALSE
    /\ rafQueue = 0
    /\ _countdownTimer = "null"
    /\ intervals = 0
    /\ guestSearch = ""
    /\ debounceTimer = FALSE
    /\ _guestSearchText = ""
    /\ Unfollowed
    /\ hist = InitHist(0, Untracked)
    /\ result = Null
    /\ data \in AggDocuments

\* compute() / _computeTotals() / renderDashboard() on the document
AggCompute ==
    /\ result = Null
    /\ result' = Aggregate(data)
    /\ UNCHANGED <<app, data, stored, storageOk, _cache, _raf, rafQueue, onclick, now, hist>>
    /\ UNCHANGED domVars
    /\ UNCHANGED <<_countdownTimer, intervals>>

NextAgg == AggCompute

SpecAgg == InitAgg /\ [][NextAgg]_vars

\* task lists for the progress value: short ones, and one long enough for a
\* single open item to weigh less than half a percent
ManyTasks == 198
ProgressTaskCounts == {0, 1, 2, 3, ManyTasks}

\* n tasks, the first k of them done
TasksDone(n, k) == [i \in 1..n |-> [NewTask("t") EXCEPT !.done = Bool(i <= k)]]

\* how many of n tasks are done in the sample
DoneCounts(n) == {0, 1, n \div 2, n - 1, n} \cap (0..n)

ProgressDocuments ==
    UNION {{[defaults EXCEPT !.onboarded = Bool(TRUE),
                             !.tasks = TasksDone(n, k),
                             !.expenses = es,
                             !.guests = gs] :
               k \in DoneCounts(n),
               es \in {<<>>, <<NewExpense("t", "ulam", "50000", "")>>},
               gs \in {<<>>, <<NewGuest("n", "2", "magia", "")>>}} :
           n \in ProgressTaskCounts}

\* App with a document of the sample, before compute() has run on it
InitProgress ==
    /\ app = "App"
    /\ now = 0
    /\ storageOk = TRUE
    /\ onclick = "none"
    /\ stored = NoItem
    /\ _cache = Null
    /\ _raf = FALSE
    /\ rafQueue = 0
    /\ _countdownTimer = "live"
    /\ intervals = 1
    /\ guestSearch = ""
    /\ debounceTimer = FALSE
    /\ _guestSearchText = ""
    /\ Unfollowed
    /\ hist = InitHist(0, Untracked)
    /\ result = Null
    /\ data \in ProgressDocuments

SpecProgress == InitProgress /\ [][NextAgg]_vars

----------------------------------------------------------------------------
(* Properties.                                                              *)

Cached == app \in {"App", "WeddingApp"}

\* C1: in every reachable state a call of compute() / _computeTotals() returns
\* the aggregation of the document as it is now: a memo that is present is
\* never one computed from an earlier document.
C1_ComputeIsFresh == Compute(_cache, data) = Aggregate(data)

\* a memo filled by a read that followed mutations through the API
C1_Witness == app = "App" /\ _cache # Null /\ Len(data.expenses) > 0 /\ Len(data.guests) > 0

\* C2: however many saves happen before the frame, at most one redraw callback
\* is queued, the flag is set exactly while one is queued, and after a save one
\* is queued: the frame runs exactly one redraw.
C2_OneRedrawPerFrame ==
    /\ rafQueue <= 1
    /\ _raf <=> rafQueue = 1
    /\ (Cached /\ hist.saves >= 1) => rafQueue = 1

\* two saves since the last frame, one callback queued
C2_Witness == app = "App" /\ hist.saves = 2 /\ rafQueue = 1 /\ hist.stale

\* C3: under fair animation frames, a mutation that no redraw has followed yet is
\* eventually followed by one.
C3_NoRedrawLost == hist.stale ~> ~hist.stale

\* an expense was added and the redraw scheduled for it has run
C3_Witness == app = "App" /\ Len(data.expenses) > 0 /\ ~hist.stale /\ ~_raf

\* a step of a handler that changed the document, in a variant with the cache
\* and the scheduler
MutationStep == Cached /\ data' # data

OnboardingStep == app = "App" /\ Falsy(data.onboarded)

\* C4 as stated: a mutation leaves the written document equal to the one in
\* memory, the cache cleared and a redraw pending.
C4_CacheClearedAfterMutation ==
    [][MutationStep => (stored' = Item(Stringify(data')) /\ _cache' = Null /\ _raf')]_vars

\* C4 amended: a mutation leaves the written document equal to the one in
\* memory, a redraw pending, and the cache cleared, except that onboarding's
\* handler, which renders before it returns, leaves the cache refilled from
\* the mutated document.
C4_CacheInvalidatedAfterMutation ==
    [][MutationStep =>
            /\ stored' = Item(Stringify(data'))
            /\ _raf'
            /\ IF OnboardingStep THEN _cache' = Aggregate(data') ELSE _cache' = Null]_vars

\* right after onboarding: saved, redraw pending, cache refilled by showApp()
C4_Witness ==
    /\ app = "App"
    /\ ~Falsy(data.onboarded)
    /\ stored = Item(Stringify(data))
    /\ _raf
    /\ ~hist.stale
    /\ _cache = Aggregate(data)

\* the paid fraction the dashboard shows for the document as it is now
PaidFraction ==
    IF app = "App" THEN Aggregate(data).budgetPercent
    ELSE WeddingAppPercent(data.settings.total_budget, Aggregate(data).totalSpent)

TotalPaid == IF app = "App" THEN Aggregate(data).totalPaid ELSE Aggregate(data).totalSpent

Budget == IF app = "App" THEN data.settings.budget ELSE data.settings.total_budget

\* clamp(q, 0, 1)
Clamp01(q) == IF FracLess(q, 0) THEN Frac(0, 1) ELSE IF FracGreater(q, 1) THEN Frac(1, 1) ELSE q

\* C6 as stated: the paid fraction is totalPaid / budget clamped to [0,1], and 0
\* when the budget is 0.
C6_PaidFractionClamped ==
    Cached =>
        /\ ~FracLess(PaidFraction, 0)
        /\ ~FracGreater(PaidFraction, 1)
        /\ PaidFraction = (IF Budget.n = 0 THEN Frac(0, 1) ELSE Clamp01(Div(Num(TotalPaid), Budget)))

\* C10: once an entity has been added and then deleted by the index the add gave
\* it, every entity list equals the list before the add and compute() returns
\* the snapshot it returned before the add.
C10_AddDeleteRoundTrip ==
    hist.rt.phase = "deleted" =>
        /\ \A k \in Lists(data) : data[k] = hist.rt.before[k]
        /\ Compute(_cache, data) = hist.rt.snap

\* an expense added to a list that held one already, then deleted again
C10_Witness ==
    /\ hist.rt.phase = "deleted"
    /\ hist.rt.list = "expenses"
    /\ Len(data.expenses) > 0

\* the sum of field f over a list, each value read as the number it denotes
RECURSIVE SumOf(_, _)
SumOf(list, f) == IF list = <<>> THEN 0 ELSE Number(Head(list)[f]).n + SumOf(Tail(list), f)

\* the sum of the party sizes of the guests whose status is in S
RECURSIVE SizesWhere(_, _)
SizesWhere(list, S) ==
    IF list = <<>> THEN 0
    ELSE (IF Head(list).status \in S THEN Head(list).count.n ELSE 0) + SizesWhere(Tail(list), S)

SumPaid == SumOf(data.expenses, IF app = "App" THEN "paid" ELSE "paid_amount")

RemainingOf(r) == IF app = "WeddingApp" THEN r.remaining ELSE r.budgetLeft

\* C5: the remaining budget the aggregation gives is the configured budget
\* minus the sum of the paid amounts, unclamped: negative exactly when the sum
\* exceeds the budget.
C5_RemainingIsBudgetMinusPaid ==
    result # Null =>
        /\ RemainingOf(result) = Num(Number(Budget).n - SumPaid)
        /\ Negative(RemainingOf(result)) <=> SumPaid > Number(Budget).n

\* an over-paid document: the remaining budget computed is negative
C5_Witness ==
    /\ app = "App"
    /\ result # Null
    /\ SumPaid > data.settings.budget.n
    /\ result.budgetLeft = Num(10000 - 50000)

\* C7: totalGuests is the sum of the guests' party sizes and the three status
\* counts add up to it.
C7_GuestPartition ==
    (app = "App" /\ result # Null) =>
        /\ result.totalGuests = SumOf(data.guests, "count")
        /\ result.confirmed + result.pending + result.declined = result.totalGuests

\* three guests, one in each bucket, one of them by a status outside the options
C7_Witness ==
    /\ app = "App"
    /\ result # Null
    /\ Len(data.guests) = 3
    /\ \E i \in 1..3 : data.guests[i].status = Str("?")
    /\ result.confirmed > 0
    /\ result.pending > 0
    /\ result.declined > 0

ExampleGuests ==
    <<NewGuest("n", "2", "magia", ""), NewGuest("n", "1", "terem", ""),
      NewGuest("n", "3", "lo_magia", "1")>>

\* C8: confirmed and declined are the party sizes of the guests with those two
\* statuses, pending the party sizes of all others, a missing or unknown
\* status included; sizes 2 confirmed, 1 pending, 3 declined give 6, 2, 1, 3.
C8_StatusBuckets ==
    (app = "App" /\ result # Null) =>
        /\ result.confirmed = SizesWhere(data.guests, {Str("magia")})
        /\ result.declined = SizesWhere(data.guests, {Str("lo_magia")})
        /\ result.pending =
                SizesWhere(data.guests,
                    {g.status : g \in AggGuests} \ {Str("magia"), Str("lo_magia")})
        /\ data.guests = ExampleGuests =>
                /\ result.totalGuests = 6
                /\ result.confirmed = 2
                /\ result.pending = 1
                /\ result.declined = 3

\* the example's guest list, aggregated
C8_Witness ==
    /\ app = "App"
    /\ result # Null
    /\ data.guests = ExampleGuests
    /\ result.totalGuests = 6

ExampleExpenses == <<NewExpense("t", "ulam", "50000", "20000")>>

Not(done) == Bool(done = Bool(FALSE))

\* C11: a toggleTask(idx) step with idx in range flips the done flag of task idx
\* and changes nothing else of the document, and toggling the same index again
\* gives the original flag back; with idx out of range the document, the
\* stored item, the cache and the redraw flag stay as they are.
C11_ToggleFlipsOneFlag ==
    [][\A idx \in -1..MaxEntities :
          (app = "App" /\ AppShown /\ idx \in RowIndices(data.tasks) /\ ToggleTaskAt(idx)) =>
              IF idx >= 0 /\ idx < Len(data.tasks)
              THEN /\ data'.tasks[idx + 1].done = Not(data.tasks[idx + 1].done)
                   /\ data' = [data EXCEPT !.tasks[idx + 1].done = data'.tasks[idx + 1].done]
                   /\ Toggled(data', idx) = data
              ELSE UNCHANGED <<data, stored, _cache, _raf, rafQueue>>]_vars

\* a task that has been toggled to done, next to one that has not
C11_Witness ==
    /\ app = "App"
    /\ Len(data.tasks) = 2
    /\ data.tasks[1].done = Bool(TRUE)
    /\ data.tasks[2].done = Bool(FALSE)

\* C12: writing the document as save() / saveData() does and loading the item
\* as load() / loadData() does gives the document back; the item holds the
\* document's fields only.
C12_StoreLoadRoundTrip ==
    /\ Boot(Item(Stringify(data))).data = data
    /\ DOMAIN Stringify(data) = DOMAIN data

\* a page loaded again from the item its handlers wrote, with an expense in it
C12_Witness ==
    /\ onclick = "none"
    /\ Len(data.expenses) > 0
    /\ stored = Item(Stringify(data))

\* what a handler that did nothing leaves as it was
Untouched == UNCHANGED <<data, stored, _cache, _raf, rafQueue>>

\* C13 as stated: a confirmed delete with an index outside 0..length-1 leaves
\* the document as it was.
C13_OutOfRangeDeleteIsNoOp ==
    [][\A list \in Lists(data), idx \in -1..MaxEntities :
          (/\ AppShown
           /\ idx \in RowIndices(data[list])
           /\ idx < 0 \/ idx >= Len(data[list])
           /\ Delete(list, idx, TRUE)) => data' = data]_vars

\* C14 as stated: a submit with an empty required field leaves the lists, the
\* stored item, the cache and the redraw flag as they were.
C14_EmptyRequiredFieldAddsNothing ==
    [][/\ \A c \in CategoryOptions, cost \in CostInputs, paid \in PaidInputs :
            (onclick = "expense" /\ ExpenseSubmit("", c, cost, paid)) => Untouched
       /\ \A t \in TitleInputs, c \in CategoryOptions, paid \in PaidInputs :
            (onclick = "expense" /\ ExpenseSubmit(t, c, "", paid)) => Untouched
       /\ (onclick = "task" /\ TaskSubmit("")) => Untouched
       /\ \A f \in GuestForms :
            (onclick = "guest" /\ GuestSubmit("", f)) => Untouched]_vars

\* a step that removes an entity or the stored item
Destructive ==
    \/ \E k \in Lists(data) : Len(data'[k]) < Len(data[k])
    \/ stored.present /\ ~stored'.present

\* C15: a declined delete or reset leaves the document, the stored item, the
\* cache and the redraw flag as they were, and every step that removes an
\* entity or the stored item is a confirmed delete, a confirmed reset, or a
\* reload of what was stored.
C15_DestructiveOnlyAfterConfirm ==
    [][/\ \A list \in Lists(data) : (AppShown /\ Delete(list, 0, FALSE)) => Untouched
       /\ (app = "App" /\ onclick = "settings" /\ ResetClick(FALSE)) => Untouched
       /\ Destructive =>
            \/ \E list \in Lists(data) : \E idx \in RowIndices(data[list]) : Delete(list, idx, TRUE)
            \/ app = "App" /\ ResetClick(TRUE)
            \/ Booted(stored)]_vars

\* the settings modal is open over a stored document with an expense: a delete
\* and a reset can both be asked for here
C15_Witness ==
    /\ app = "App"
    /\ onclick = "settings"
    /\ Len(data.expenses) > 0
    /\ stored = Item(Stringify(data))

\* C16 as stated: no two entities of a list share an id.
C16_IdsUniqueInList ==
    app = "App" =>
        \A k \in Lists(data) : \A i, j \in 1..Len(data[k]) :
            i # j => data[k][i].id # data[k][j].id

\* C17 as stated: a settings update with an empty budget input stores the
\* variant's default budget.
C17_EmptyBudgetFallsBackToDefault ==
    [][(Cached /\ onclick = "settings" /\ SettingsSubmit("")) =>
            Budget' = Num(IF app = "App" THEN DEFAULT_BUDGET ELSE LEGACY_BUDGET)]_vars

\* the document a variant starts from
DefaultDocument == IF app = "App" THEN defaults ELSE WeddingAppData

\* C18: a load that finds no item, or an item whose text does not parse, gives
\* the default document, and init() ends without an uncaught error.
C18_LoadFallsBackToDefaults ==
    [][((stored = NoItem \/ stored = Corrupt) /\ Booted(stored)) =>
            /\ data' = DefaultDocument
            /\ hist'.out = "ok"]_vars

\* the stored text does not parse and the document in memory is no longer the
\* default one: the next load replaces it
C18_Witness ==
    /\ stored = Corrupt
    /\ onclick = "none"
    /\ data # DefaultDocument

\* C19 as stated: a handler that changes the document while the storage write
\* fails ends with the user shown a notice.
C19_WriteFailureIsNoticed ==
    [][(/\ ~storageOk
        /\ data' # data
        /\ ~Booted(stored)
        /\ ~(app = "App" /\ ResetClick(TRUE))) => hist'.out = "noticed"]_vars

\* C20: a confirmed reset removes the stored item and reloads into the default
\* document, not onboarded and with empty lists; a further reload gives the
\* same document.
C20_ResetGivesDefaults ==
    [][(app = "App" /\ onclick = "settings" /\ ResetClick(TRUE)) =>
            /\ ~stored'.present
            /\ data' = defaults
            /\ data'.onboarded = Bool(FALSE)
            /\ \A k \in {"expenses", "guests", "tasks"} : data'[k] = <<>>
            /\ Load(stored') = data']_vars

\* the settings modal is open over a stored, onboarded document with a task:
\* the reset can be confirmed here
C20_Witness ==
    /\ app = "App"
    /\ onclick = "settings"
    /\ stored.present
    /\ data.onboarded = Bool(TRUE)
    /\ Len(data.tasks) > 0

C22_SearchIsDebounced ==
    [][/\ \A text \in SearchTexts :
            (AppShown /\ SearchInput(text)) => UNCHANGED _guestSearchText
       /\ (debounceTimer /\ ~debounceTimer' /\ UNCHANGED data) =>
            _guestSearchText' = Trim(guestSearch)]_vars

\* list without its i-th entity
Without(list, i) == SubSeq(list, 1, i - 1) \o SubSeq(list, i + 1, Len(list))

\* the same entities at the same places, at most their done flag changed
SameEntities(before, after) ==
    /\ Len(after) = Len(before)
    /\ \A i \in 1..Len(before) :
          \/ after[i] = before[i]
          \/ /\ "done" \in DOMAIN before[i]
             /\ after[i] = [before[i] EXCEPT !.done = after[i].done]

\* C23: every step (an add, a delete, a toggle, a settings save, a frame's
\* render, a filtered render) leaves each list as it was up to done flags, or
\* with new entities appended at its end (one by an add, the default tasks by
\* onboarding), or with one entity removed and the others in the order they
\* had.
C23_InsertionOrderKept ==
    [][\A k \in Lists(data) :
          \/ SameEntities(data[k], data'[k])
          \/ /\ Len(data'[k]) > Len(data[k])
             /\ SubSeq(data'[k], 1, Len(data[k])) = data[k]
          \/ \E i \in 1..Len(data[k]) : data'[k] = Without(data[k], i)]_vars

\* two tasks, the first done and the second not, after the frame has drawn
\* them (the task view shows the second one first)
C23_Witness ==
    /\ app = "App"
    /\ Len(data.tasks) = 2
    /\ data.tasks[1].done = Bool(TRUE)
    /\ data.tasks[2].done = Bool(FALSE)
    /\ data.tasks[1].title # data.tasks[2].title
    /\ rafQueue = 0
    /\ _cache # Null

\* the items the progress value counts, and how many of them are done
ProgressItems == Len(data.tasks) + 2
ProgressDone ==
    Cardinality({i \in 1..Len(data.tasks) : data.tasks[i].done = Bool(TRUE)})
        + (IF data.expenses # <<>> THEN 1 ELSE 0)
        + (IF data.guests # <<>> THEN 1 ELSE 0)

\* the progress value is the percentage rounded half up, within 0..100, and 0
\* for the empty document
ProgressRounded ==
    /\ result.weddingProgress = (200 * ProgressDone + ProgressItems) \div (2 * ProgressItems)
    /\ result.weddingProgress \in 0..100
    /\ (data.tasks = <<>> /\ data.expenses = <<>> /\ data.guests = <<>>) =>
            result.weddingProgress = 0

ShownBudgetFraction ==
    CASE app = "App" -> result.budgetPercent
      [] app = "WeddingApp" -> WeddingAppPercent(data.settings.total_budget, result.totalSpent)
      [] OTHER -> result.progress

\* C25 as stated: with a budget of 0 the budget fraction is 0, and with no
\* task the task fraction is 0: never NaN, never Infinity.
C25_ZeroDenominatorGivesZero ==
    result # Null =>
        /\ Number(Budget) = Num(0) => ShownBudgetFraction = Frac(0, 1)
        /\ (app = "App" /\ data.tasks = <<>>) => result.taskPercent = Frac(0, 1)

\* the guest total the dashboard shows
ShownGuestTotal ==
    IF app = "Legacy" THEN LegacyGuests(data.guests, 1, Num(0)).n ELSE result.totalGuests

\* C26 as stated: each total is the sum of its field over the list, a value
\* that is missing or not a number counting 0: the paid total, the gift total
\* and the guest total.
C26_MissingFieldsCountZero ==
    result # Null =>
        /\ app = "App" =>
              /\ result.totalCost = SumOf(data.expenses, "cost")
              /\ result.totalPaid = SumOf(data.expenses, "paid")
              /\ result.gifts = SumOf(data.guests, "gift")
        /\ app = "WeddingApp" =>
              /\ result.totalSpent = SumOf(data.expenses, "paid_amount")
              /\ result.totalGifts = SumOf(data.guests, "gift")
        /\ ShownGuestTotal = SumOf(data.guests, IF app = "App" THEN "count" ELSE "total_people")

\* C27: since the last save() the aggregation has run at most once, however
\* many frames, chip clicks and other reads followed; it has not run at all
\* only while there is no memo.
C27_ComputedOncePerMutation ==
    (Cached /\ hist.computes >= 0) =>
        /\ hist.computes <= 1
        /\ hist.computes = 0 => _cache = Null
        /\ hist.computes = 1 => _cache # Null

\* an expense was saved and the frame after it has drawn the dashboard
C27_Witness ==
    /\ Cached
    /\ Len(data.expenses) > 0
    /\ hist.saves = 0
    /\ rafQueue = 0
    /\ hist.computes = 1

\* C28: a confirmed click on the delete button of a row of the guest list, drawn
\* from the document as it is under the text it was last filtered by, removes
\* the guest that row displays and no other.
C28_RowDeleteRemovesShown ==
    [][\A r \in 1..Len(rows.guests) :
          (/\ AppShown
           /\ rows.guests = GuestRows(data, _guestSearchText)
           /\ RowDeleteGuestAt(r))
          => \E i \in 1..Len(data.guests) :
                /\ data.guests[i] = rows.guests[r].shows
                /\ data'.guests = Without(data.guests, i)]_vars

\* the entity a row displays, whatever its done flag has become since
Displays(row, e) ==
    IF "done" \in DOMAIN e THEN [e EXCEPT !.done = row.shows.done] = row.shows ELSE e = row.shows

\* C29: in App a click on a row's delete button or checkbox never addresses
\* another entity than the one the row displays, also when a mutation has
\* changed the list since the row was drawn and the frame has not redrawn it:
\* the click removes or toggles the displayed entity, or changes no list.
C29_StaleRowActsOnShown ==
    [][(app = "App" /\ AppShown) =>
          /\ \A r \in 1..Len(rows.tasks) :
                RowDeleteTaskAt(r) =>
                    \/ data'.tasks = data.tasks
                    \/ \E i \in 1..Len(data.tasks) :
                          /\ Displays(rows.tasks[r], data.tasks[i])
                          /\ data'.tasks = Without(data.tasks, i)
          /\ \A r \in 1..Len(rows.tasks) :
                RowToggleTaskAt(r) =>
                    \/ data'.tasks = data.tasks
                    \/ \E i \in 1..Len(data.tasks) :
                          /\ Displays(rows.tasks[r], data.tasks[i])
                          /\ data' = Toggled(data, i - 1)
          /\ \A r \in 1..Len(rows.guests) :
                RowDeleteGuestAt(r) =>
                    \/ data'.guests = data.guests
                    \/ \E i \in 1..Len(data.guests) :
                          /\ Displays(rows.guests[r], data.guests[i])
                          /\ data'.guests = Without(data.guests, i)]_vars

\* C30: the timeout of closeModal() leaves a modal alone that was opened after
\* the close, neither hiding it nor removing its save handler, and a click on
\* the save button while the closed modal waits for its cleanup adds nothing.
C30_CleanupSparesReopenedModal ==
    [][/\ (display = "open" /\ CleanupTimeout) => UNCHANGED <<display, onclick>>
       /\ (display = "closing" /\ (SaveExpense \/ SaveGuest \/ SaveTask)) => UNCHANGED data]_vars

====
